---- MODULE Spec2Model ----
(***************************************************************************)
(* State machine of the DepositSteam bot's bookkeeping core (src/main.py): *)
(* the SQLite tables users and transactions, the functions that read and   *)
(* write them, and the /start and /deposit handlers built on them.         *)
(*                                                                         *)
(* Column values that SQLite types dynamically are tagged records:         *)
(*   Null, Num(n), Str(s).  REAL amounts are modelled by integers.         *)
(* Python's None in a TEXT profile column is the string "NULL".            *)
(***************************************************************************)
EXTENDS Integers, Sequences, FiniteSets, TLC

VARIABLES users, transactions, tx_seq, clock, lock, pc, local, last

vars == <<users, transactions, tx_seq, clock, lock, pc, local, last>>

(* ---------------------------- bounds ----------------------------------- *)
MaxTx == 2
MaxClock == 1

(* ------------------------- tagged values ------------------------------- *)
Null == [t |-> "null", n |-> 0, s |-> ""]
Num(n) == [t |-> "num", n |-> n, s |-> ""]
Str(s) == [t |-> "str", n |-> 0, s |-> s]

IsNull(v) == v.t = "null"

(* ------------------------- input domains ------------------------------- *)
ADMIN_IDS == {1848571732, 741974404}

TelegramIds == {42, 1848571732}

Procs == {1, 2}

Profiles ==
    { [username |-> "neo", first_name |-> "Tom", last_name |-> "NULL"],
      [username |-> "trinity", first_name |-> "Tom", last_name |-> "A"] }

Statuses == {"pending", "completed", "failed"}

RequestedStatuses == Statuses \cup {"refunded"}

(* recordEntry requests made of the ledger: <<owner, kind, amount>>.        *)
LedgerRequests ==
    { <<42, "deposit", Num(10)>>, <<42, "deposit", Num(15)>>,
      <<42, "withdrawal", Num(10)>>, <<1848571732, "deposit", Num(15)>> }

NewBalances == {25}

(* Amounts recordEntry must refuse: zero, and Python values that are not a *)
(* number (None, a text).                                                  *)
InvalidAmounts == {Num(0), Null, Str("Unknown")}

example_amount == 10

example_currency == "TON"

(* --------------------------- helpers ----------------------------------- *)
UserRows(tbl, tid) == {i \in DOMAIN tbl : tbl[i].telegram_id = tid}

HasUser(tbl, tid) == UserRows(tbl, tid) # {}

UserRow(tbl, tid) == tbl[CHOOSE i \in UserRows(tbl, tid) : TRUE]

(* CREATE_USERS_TABLE: column defaults of a freshly inserted row.  The     *)
(* surrogate key users.id is left out: no statement of the program reads   *)
(* or writes it, every lookup is by telegram_id.                           *)
NewUserRow(tid, prof, now) ==
    [telegram_id |-> tid,
     username |-> prof.username, first_name |-> prof.first_name,
     last_name |-> prof.last_name,
     created_at |-> now, is_admin |-> 0, steam_wallet_balance |-> 0]

(* A plain INSERT into a table without the UNIQUE constraint.              *)
InsertUserNoUnique(tbl, tid, prof, now) ==
    Append(tbl, NewUserRow(tid, prof, now))

(* INSERT OR REPLACE: the conflicting row is deleted and a fresh row, with *)
(* the column defaults, takes its place.                                   *)
InsertOrReplaceUser(tbl, tid, prof, now) ==
    Append(SelectSeq(tbl, LAMBDA r : r.telegram_id # tid), NewUserRow(tid, prof, now))

(* INSERT OR IGNORE INTO users: the UNIQUE constraint on telegram_id makes *)
(* the statement a no-op when a row with that telegram_id exists.          *)
InsertOrIgnoreUser(tbl, tid, prof, now) ==
    IF HasUser(tbl, tid) THEN tbl
    ELSE Append(tbl, NewUserRow(tid, prof, now))

(* steam_wallet_balance of the account tid; 0 when there is none.          *)
Balance(tbl, tid) ==
    IF HasUser(tbl, tid) THEN UserRow(tbl, tid).steam_wallet_balance ELSE 0

Accounts(tbl) == {tbl[i].telegram_id : i \in DOMAIN tbl}

NoProfile == [username |-> "NULL", first_name |-> "NULL", last_name |-> "NULL"]

(* What a suspended call holds: its arguments, its uncommitted view of the *)
(* users table (get_or_create_user), the gateway's answer (cmd_deposit).   *)
NoLocal == [tid |-> 0, prof |-> NoProfile, users |-> <<>>, response |-> ""]

(* The most recently returned call: its name, the row key and the string   *)
(* argument it was given, and how it ended (a return, a reply sent to the  *)
(* user, or the exception that left it), with the returned number (a row   *)
(* id, a count, a sum) and the ids of the returned rows, if any.           *)
NoCall ==
    [op |-> "none", who |-> 0, what |-> "", result |-> "none", ret |-> 0, rows |-> <<>>]

Call(op, who, what, result, ret) ==
    [op |-> op, who |-> who, what |-> what, result |-> result, ret |-> ret,
     rows |-> <<>>]

Listing(op, who, rows) ==
    [op |-> op, who |-> who, what |-> "", result |-> "ok", ret |-> 0, rows |-> rows]

(* UPDATE users SET <col> = v WHERE telegram_id = tid                      *)
SetAdminWhere(tbl, tid, v) ==
    [i \in DOMAIN tbl |->
        IF tbl[i].telegram_id = tid THEN [tbl[i] EXCEPT !.is_admin = v] ELSE tbl[i]]

SetBalanceWhere(tbl, tid, v) ==
    [i \in DOMAIN tbl |->
        IF tbl[i].telegram_id = tid THEN [tbl[i] EXCEPT !.steam_wallet_balance = v]
        ELSE tbl[i]]

(* A variant that drops the entry when it fails.                           *)
SetStatusWhereDeleting(tbl, id, s) ==
    IF s = "failed" THEN SelectSeq(tbl, LAMBDA r : r.id # id)
    ELSE [i \in DOMAIN tbl |->
            IF tbl[i].id = id THEN [tbl[i] EXCEPT !.status = s] ELSE tbl[i]]

(* UPDATE transactions SET status = s WHERE id = id                        *)
SetStatusWhere(tbl, id, s) ==
    [i \in DOMAIN tbl |->
        IF tbl[i].id = id THEN [tbl[i] EXCEPT !.status = s] ELSE tbl[i]]

(* Column affinity REAL: text that reads as a number is stored as that     *)
(* number, any other text is stored as text.                               *)
TextAsNumber == ("15" :> 15)

RealAffinity(v) ==
    IF v.t = "str" /\ v.s \in DOMAIN TextAsNumber THEN Num(TextAsNumber[v.s]) ELSE v

(* CREATE_TRANSACTIONS_TABLE: the NOT NULL columns.  The FOREIGN KEY       *)
(* clause is declared, but get_db_connection never switches enforcement    *)
(* on (PRAGMA foreign_keys), so it rejects nothing.                        *)
TxConstraintsOk(tbl_users, u, type, amount, currency) ==
    /\ ~IsNull(amount)
    /\ ~IsNull(currency)

(* cursor.lastrowid read before the INSERT: the id of the previous row.    *)
AutoIncrementStale(tbl, seq) == IF tbl = <<>> THEN 1 ELSE tbl[Len(tbl)].id

(* id INTEGER PRIMARY KEY AUTOINCREMENT: one more than the largest id ever *)
(* assigned (sqlite_sequence), which an insert that fails does not         *)
(* advance.                                                                *)
AutoIncrement(tbl, seq) == seq + 1

NoDescription == [text |-> "", amount |-> Null, currency |-> Null]

NewTxRow(id, u, type, amount, currency, status, external_id, description, now) ==
    [id |-> id, user_telegram_id |-> u, type |-> type,
     amount |-> RealAffinity(amount), currency |-> currency, status |-> status,
     external_id |-> external_id, description |-> description, created_at |-> now]

(* A rollback that keeps what the failed call wrote.                       *)
RollbackCommitting(committed, written) == written

(* get_db_connection, except branch: conn.rollback() discards what the     *)
(* connection wrote since its last commit; the exception is raised again.  *)
Rollback(committed, written) == committed

(* ----------------------------- Init ------------------------------------ *)
Init ==
    /\ users = <<>>
    /\ transactions = <<>>
    /\ tx_seq = 0
    /\ clock = 0
    /\ lock = 0
    /\ pc = [p \in Procs |-> "idle"]
    /\ local = [p \in Procs |-> NoLocal]
    /\ last = NoCall

(* --------------------------- get_or_create_user ------------------------ *)
(* The call is made: the connection is opened.                             *)
get_or_create_user_call(p, tid, prof) ==
    /\ pc[p] = "idle"
    /\ pc' = [pc EXCEPT ![p] = "called"]
    /\ local' = [local EXCEPT ![p] = [NoLocal EXCEPT !.tid = tid, !.prof = prof]]
    /\ UNCHANGED <<users, transactions, tx_seq, clock, lock, last>>

(* First statement: the implicit BEGIN takes the database write lock and   *)
(* the INSERT OR IGNORE runs in the connection's uncommitted view.         *)
get_or_create_user_insert(p) ==
    /\ pc[p] = "called"
    /\ lock = 0
    /\ lock' = p
    /\ pc' = [pc EXCEPT ![p] = "inserted"]
    /\ local' = [local EXCEPT ![p].users =
                    InsertOrIgnoreUser(users, local[p].tid, local[p].prof, clock)]
    /\ UNCHANGED <<users, transactions, tx_seq, clock, last>>

(* SELECT, commit, return the row.                                         *)
get_or_create_user_commit(p) ==
    /\ pc[p] = "inserted"
    /\ lock = p
    /\ users' = local[p].users
    /\ lock' = 0
    /\ pc' = [pc EXCEPT ![p] = "idle"]
    /\ local' = [local EXCEPT ![p] = NoLocal]
    /\ last' = Call("get_or_create_user", local[p].tid, "", "ok", 0)
    /\ UNCHANGED <<transactions, tx_seq, clock>>

(* The write lock is held by another connection until SQLite's busy        *)
(* timeout runs out: sqlite3.OperationalError, rollback, re-raise.         *)
get_or_create_user_locked(p) ==
    /\ pc[p] = "called"
    /\ lock \notin {0, p}
    /\ pc' = [pc EXCEPT ![p] = "idle"]
    /\ local' = [local EXCEPT ![p] = NoLocal]
    /\ last' = Call("get_or_create_user", local[p].tid, "", "OperationalError", 0)
    /\ UNCHANGED <<users, transactions, tx_seq, clock, lock>>

(* The same function when no other connection is open: the three steps    *)
(* above run one after the other with nothing in between.                  *)
get_or_create_user(tid, prof) ==
    /\ lock = 0
    /\ \A p \in Procs : pc[p] = "idle"
    /\ users' = InsertOrIgnoreUser(users, tid, prof, clock)
    /\ last' = Call("get_or_create_user", tid, "", "ok", 0)
    /\ UNCHANGED <<transactions, tx_seq, clock, lock, pc, local>>

(* ------------------------ the other writers ---------------------------- *)
(* Each runs to its commit without suspending; it needs the write lock.    *)
set_user_admin_status(tid, is_admin) ==
    /\ lock = 0
    /\ users' = SetAdminWhere(users, tid, IF is_admin THEN 1 ELSE 0)
    /\ last' = Call("set_user_admin_status", tid, IF is_admin THEN "1" ELSE "0",
                    "ok", 0)
    /\ UNCHANGED <<transactions, tx_seq, clock, lock, pc, local>>

update_steam_wallet_balance(tid, new_balance) ==
    /\ lock = 0
    /\ users' = SetBalanceWhere(users, tid, new_balance)
    /\ last' = Call("update_steam_wallet_balance", tid, "", "ok", 0)
    /\ UNCHANGED <<transactions, tx_seq, clock, lock, pc, local>>

add_transaction(u, type, amount, currency, status, external_id, description) ==
    /\ lock = 0
    /\ Len(transactions) < MaxTx
    /\ IF TxConstraintsOk(users, u, type, amount, currency)
       THEN /\ transactions' =
                   Append(transactions,
                          NewTxRow(AutoIncrement(transactions, tx_seq), u, type,
                                   amount, currency, status, external_id,
                                   description, clock))
            /\ tx_seq' = tx_seq + 1
            /\ last' = Call("add_transaction", u, type, "ok",
                            AutoIncrement(transactions, tx_seq))
       ELSE /\ UNCHANGED <<transactions, tx_seq>>
            /\ last' = Call("add_transaction", u, type, "IntegrityError", 0)
    /\ UNCHANGED <<users, clock, lock, pc, local>>

(* A variant that credits the owner whenever an entry is completed.        *)
update_transaction_status_crediting(transaction_id, new_status) ==
    /\ lock = 0
    /\ transactions' = SetStatusWhere(transactions, transaction_id, new_status)
    /\ users' =
          IF new_status = "completed" /\ transaction_id \in DOMAIN transactions
          THEN LET tx == transactions[transaction_id]
               IN  SetBalanceWhere(users, tx.user_telegram_id,
                                   Balance(users, tx.user_telegram_id) + tx.amount.n)
          ELSE users
    /\ last' = Call("update_transaction_status", transaction_id, new_status, "ok", 0)
    /\ UNCHANGED <<tx_seq, clock, lock, pc, local>>

update_transaction_status(transaction_id, new_status) ==
    /\ lock = 0
    /\ transactions' = SetStatusWhere(transactions, transaction_id, new_status)
    /\ last' = Call("update_transaction_status", transaction_id, new_status, "ok", 0)
    /\ UNCHANGED <<users, tx_seq, clock, lock, pc, local>>

(* ------------------- the writers when the store fails ------------------ *)
(* The statement has run in the connection's transaction and the commit    *)
(* (or, in get_or_create_user, the SELECT before it) raises                *)
(* sqlite3.OperationalError: get_db_connection rolls back and re-raises.   *)
get_or_create_user_rollback(p) ==
    /\ pc[p] = "inserted"
    /\ lock = p
    /\ users' = Rollback(users, local[p].users)
    /\ lock' = 0
    /\ pc' = [pc EXCEPT ![p] = "idle"]
    /\ local' = [local EXCEPT ![p] = NoLocal]
    /\ last' = Call("get_or_create_user", local[p].tid, "", "OperationalError", 0)
    /\ UNCHANGED <<transactions, tx_seq, clock>>

set_user_admin_status_rollback(tid, is_admin) ==
    /\ lock = 0
    /\ users' = Rollback(users, SetAdminWhere(users, tid, IF is_admin THEN 1 ELSE 0))
    /\ last' = Call("set_user_admin_status", tid, IF is_admin THEN "1" ELSE "0",
                    "OperationalError", 0)
    /\ UNCHANGED <<transactions, tx_seq, clock, lock, pc, local>>

update_steam_wallet_balance_rollback(tid, new_balance) ==
    /\ lock = 0
    /\ users' = Rollback(users, SetBalanceWhere(users, tid, new_balance))
    /\ last' = Call("update_steam_wallet_balance", tid, "", "OperationalError", 0)
    /\ UNCHANGED <<transactions, tx_seq, clock, lock, pc, local>>

add_transaction_rollback(u, type, amount, currency, status, external_id, description) ==
    /\ lock = 0
    /\ Len(transactions) < MaxTx
    /\ TxConstraintsOk(users, u, type, amount, currency)
    /\ transactions' =
          Rollback(transactions,
                   Append(transactions,
                          NewTxRow(AutoIncrement(transactions, tx_seq), u, type,
                                   amount, currency, status, external_id,
                                   description, clock)))
    /\ tx_seq' = Rollback(tx_seq, tx_seq + 1)
    /\ last' = Call("add_transaction", u, type, "OperationalError", 0)
    /\ UNCHANGED <<users, clock, lock, pc, local>>

update_transaction_status_rollback(transaction_id, new_status) ==
    /\ lock = 0
    /\ transactions' =
          Rollback(transactions, SetStatusWhere(transactions, transaction_id, new_status))
    /\ last' = Call("update_transaction_status", transaction_id, new_status,
                    "OperationalError", 0)
    /\ UNCHANGED <<users, tx_seq, clock, lock, pc, local>>

(* ------------------------------ the readers --------------------------- *)
(* SELECT SUM(amount) ... WHERE type = ? AND status = 'completed': the     *)
(* aggregate runs over the matching rows; a text amount that does not read *)
(* as a number counts as 0; with no matching row the result is NULL.       *)
(* The same aggregate without the status filter.                           *)
RECURSIVE SqlSumAnyStatus(_, _)
SqlSumAnyStatus(tbl, type) ==
    IF tbl = <<>> THEN Null
    ELSE LET rest == SqlSumAnyStatus(SubSeq(tbl, 1, Len(tbl) - 1), type)
             row == tbl[Len(tbl)]
             v == IF row.amount.t = "num" THEN row.amount.n ELSE 0
         IN  IF row.type = type
             THEN Num((IF IsNull(rest) THEN 0 ELSE rest.n) + v)
             ELSE rest

RECURSIVE SqlSum(_, _)
SqlSum(tbl, type) ==
    IF tbl = <<>> THEN Null
    ELSE LET rest == SqlSum(SubSeq(tbl, 1, Len(tbl) - 1), type)
             row == tbl[Len(tbl)]
             v == IF row.amount.t = "num" THEN row.amount.n ELSE 0
         IN  IF row.type = type /\ row.status = "completed"
             THEN Num((IF IsNull(rest) THEN 0 ELSE rest.n) + v)
             ELSE rest

(* result if result is not None else 0.0                                   *)
TotalCompleted(tbl, type) ==
    LET result == SqlSum(tbl, type) IN IF IsNull(result) THEN 0 ELSE result.n

(* ORDER BY created_at DESC: the rows are scanned in id order and sorted   *)
(* on created_at alone by a stable sort, so rows of the same second stay   *)
(* in ascending id order.                                                  *)
InsertByCreatedAtDesc(sorted, row) ==
    LET k == Cardinality({i \in DOMAIN sorted : sorted[i].created_at >= row.created_at})
    IN  SubSeq(sorted, 1, k) \o <<row>> \o SubSeq(sorted, k + 1, Len(sorted))

RECURSIVE OrderByCreatedAtDesc(_)
OrderByCreatedAtDesc(tbl) ==
    IF tbl = <<>> THEN <<>>
    ELSE InsertByCreatedAtDesc(OrderByCreatedAtDesc(SubSeq(tbl, 1, Len(tbl) - 1)),
                               tbl[Len(tbl)])

(* LIMIT ?                                                                 *)
Limit(rows, limit) ==
    IF limit < 0 \/ limit > Len(rows) THEN rows ELSE SubSeq(rows, 1, limit)

Ids(rows) == [i \in DOMAIN rows |-> rows[i].id]

RecentTransactions(tbl, limit) == Limit(OrderByCreatedAtDesc(tbl), limit)

TransactionsByUser(tbl, tid, limit) ==
    Limit(OrderByCreatedAtDesc(SelectSeq(tbl, LAMBDA r : r.user_telegram_id = tid)),
          limit)

(* A reader needs no write lock, only a connection that is not inside a    *)
(* call.                                                                   *)
CanRead == \E p \in Procs : pc[p] = "idle"

get_total_users_count ==
    /\ CanRead
    /\ last' = Call("get_total_users_count", 0, "", "ok", Len(users))
    /\ UNCHANGED <<users, transactions, tx_seq, clock, lock, pc, local>>

get_total_transactions_count ==
    /\ CanRead
    /\ last' = Call("get_total_transactions_count", 0, "", "ok", Len(transactions))
    /\ UNCHANGED <<users, transactions, tx_seq, clock, lock, pc, local>>

get_total_completed_deposit_amount ==
    /\ CanRead
    /\ last' = Call("get_total_completed_deposit_amount", 0, "deposit", "ok",
                    TotalCompleted(transactions, "deposit"))
    /\ UNCHANGED <<users, transactions, tx_seq, clock, lock, pc, local>>

get_total_completed_withdrawal_amount ==
    /\ CanRead
    /\ last' = Call("get_total_completed_withdrawal_amount", 0, "withdrawal", "ok",
                    TotalCompleted(transactions, "withdrawal"))
    /\ UNCHANGED <<users, transactions, tx_seq, clock, lock, pc, local>>

get_transactions_by_user(telegram_id, limit) ==
    /\ CanRead
    /\ last' = [Listing("get_transactions_by_user", telegram_id,
                        Ids(TransactionsByUser(transactions, telegram_id, limit)))
                  EXCEPT !.ret = limit]
    /\ UNCHANGED <<users, transactions, tx_seq, clock, lock, pc, local>>

get_all_transactions(limit) ==
    /\ CanRead
    /\ last' = [Listing("get_all_transactions", 0,
                        Ids(RecentTransactions(transactions, limit)))
                  EXCEPT !.ret = limit]
    /\ UNCHANGED <<users, transactions, tx_seq, clock, lock, pc, local>>

get_recent_transactions(limit) ==
    /\ CanRead
    /\ last' = [Listing("get_recent_transactions", 0,
                        Ids(RecentTransactions(transactions, limit)))
                  EXCEPT !.ret = limit]
    /\ UNCHANGED <<users, transactions, tx_seq, clock, lock, pc, local>>

(* is_admin: the account must be stored; then its flag or the allow-list   *)
(* decides.                                                                *)
is_admin(telegram_id) ==
    /\ HasUser(users, telegram_id)
    /\ (UserRow(users, telegram_id).is_admin = 1 \/ telegram_id \in ADMIN_IDS)

(* send_admin_stats (the /stats handler): the reply carries the four       *)
(* totals and the five most recent entries.                                *)
send_admin_stats(u) ==
    /\ CanRead
    /\ last' = IF ~is_admin(u)
               THEN Call("send_admin_stats", u, "", "denied", 0)
               ELSE [Listing("send_admin_stats", u,
                             Ids(RecentTransactions(transactions, 5)))
                       EXCEPT !.result = "stats",
                              !.what = ToString(<<Len(users), Len(transactions),
                                                  TotalCompleted(transactions, "deposit"),
                                                  TotalCompleted(transactions, "withdrawal")>>)]
    /\ UNCHANGED <<users, transactions, tx_seq, clock, lock, pc, local>>

(* A /balance handler that registers the caller first, as /start does.     *)
cmd_balance_registering(u) ==
    /\ CanRead
    /\ users' = InsertOrIgnoreUser(users, u, NoProfile, clock)
    /\ last' = Call("cmd_balance", u, "", "balance", Balance(users', u))
    /\ UNCHANGED <<transactions, tx_seq, clock, lock, pc, local>>

(* /balance: the stored balance, or the request to /start first.           *)
cmd_balance(u) ==
    /\ CanRead
    /\ last' = IF HasUser(users, u)
               THEN Call("cmd_balance", u, "", "balance", Balance(users, u))
               ELSE Call("cmd_balance", u, "", "please_start", 0)
    /\ UNCHANGED <<users, transactions, tx_seq, clock, lock, pc, local>>

(* /transactions: the caller's five most recent entries, the notice that  *)
(* there are none, or the request to /start first.                         *)
cmd_transactions(u) ==
    /\ CanRead
    /\ last' = LET rows == TransactionsByUser(transactions, u, 5)
               IN  IF ~HasUser(users, u)
                   THEN Call("cmd_transactions", u, "", "please_start", 0)
                   ELSE IF rows = <<>>
                   THEN Call("cmd_transactions", u, "", "no_transactions", 0)
                   ELSE [Listing("cmd_transactions", u, Ids(rows))
                           EXCEPT !.result = "history"]
    /\ UNCHANGED <<users, transactions, tx_seq, clock, lock, pc, local>>

(* ------------------------- the payment gateway ------------------------- *)
(* What requests.post meets: no response at all, a response with an HTTP   *)
(* error status, a 2xx response whose body is not JSON, or a 2xx response  *)
(* whose body is the JSON value `body`.                                    *)
Absent == [t |-> "absent", n |-> 0, s |-> ""]

JsonNull == [t |-> "null", nonempty |-> FALSE,
             amount |-> Absent, currency |-> Absent, externalId |-> Absent]

JsonArray == [t |-> "array", nonempty |-> TRUE,
              amount |-> Absent, currency |-> Absent, externalId |-> Absent]

JsonEmptyObject == [t |-> "object", nonempty |-> FALSE,
                    amount |-> Absent, currency |-> Absent, externalId |-> Absent]

JsonObject(amount, currency, externalId) ==
    [t |-> "object", nonempty |-> TRUE,
     amount |-> amount, currency |-> currency, externalId |-> externalId]

(* A response: how the HTTP exchange ended (kind), the decoded body, and a *)
(* name to tell the responses apart.                                       *)
Response(name, kind, body) == [name |-> name, kind |-> kind, body |-> body]

FailedResponses ==
    { Response("transport_error", "transport_error", JsonNull),
      Response("http_error", "http_error", JsonNull) }

WellFormedResponses ==
    { Response("confirmed", "ok", JsonObject(Num(15), Str("USDT"), Str("gw-1"))),
      Response("confirmed_text", "ok", JsonObject(Str("15"), Str("TON"), Absent)) }

MalformedResponses ==
    { Response("not_json", "not_json", JsonNull),
      Response("null", "ok", JsonNull),
      Response("empty_object", "ok", JsonEmptyObject),
      Response("array", "ok", JsonArray),
      Response("no_amount", "ok", JsonObject(Absent, Str("USDT"), Str("gw-1"))),
      Response("null_amount", "ok", JsonObject(Null, Str("USDT"), Str("gw-1"))),
      Response("no_currency", "ok", JsonObject(Num(15), Absent, Str("gw-1"))) }

GatewayResponses == FailedResponses \cup WellFormedResponses \cup MalformedResponses

Names(responses) == {r.name : r \in responses}

(* call_playwallet_api: the outcomes of one call.  raise_for_status turns  *)
(* an HTTP error status into a RequestException; response.json() raises    *)
(* on a body that is not JSON, an exception that is a RequestException     *)
(* only in the newer releases of the requests library, so both outcomes    *)
(* are possible.                                                           *)
Returned(v) == [raised |-> "", value |-> v]

Raised(e) == [raised |-> e, value |-> JsonNull]

(* A variant without raise_for_status: the body of an error response, a    *)
(* JSON object describing the error, is returned like any other.           *)
call_playwallet_api_unchecked(response) ==
    CASE response.kind = "transport_error" -> {Returned(JsonNull)}
      [] response.kind = "http_error" -> {Returned(JsonObject(Absent, Absent, Absent))}
      [] response.kind = "not_json" -> {Returned(JsonNull), Raised("ValueError")}
      [] OTHER -> {Returned(response.body)}

call_playwallet_api(response) ==
    CASE response.kind \in {"transport_error", "http_error"} -> {Returned(JsonNull)}
      [] response.kind = "not_json" -> {Returned(JsonNull), Raised("ValueError")}
      [] OTHER -> {Returned(response.body)}

(* Python truth value of the decoded body.                                 *)
Truthy(j) == j.nonempty

(* dict.get(key, default)                                                  *)
Get(v, default) == IF v = Absent THEN default ELSE v

Unknown == Str("Unknown")

(* A variant that records the figures the request was made with.           *)
DepositTermsRequested(api_response) ==
    [amount |-> Num(example_amount),
     currency |-> Str(example_currency),
     external_id |-> Get(api_response.externalId, Null)]

(* The terms cmd_deposit reads from the decoded body, with its defaults.   *)
DepositTerms(api_response) ==
    [amount |-> Get(api_response.amount, Unknown),
     currency |-> Get(api_response.currency, Str("TON")),
     external_id |-> Get(api_response.externalId, Null)]

(* ------------------------------ cmd_deposit ---------------------------- *)
(* What the handler does once call_playwallet_api has been answered.       *)
cmd_deposit_answered(u, response) ==
    /\ lock = 0
    /\ \E api \in call_playwallet_api(response) :
        IF api.raised # ""
        THEN /\ last' = Call("cmd_deposit", u, response.name, api.raised, 0)
             /\ UNCHANGED <<transactions, tx_seq>>
        ELSE IF ~Truthy(api.value)
        THEN /\ last' = Call("cmd_deposit", u, response.name, "deposit_failed", 0)
             /\ UNCHANGED <<transactions, tx_seq>>
        ELSE IF api.value.t # "object"
        THEN /\ last' = Call("cmd_deposit", u, response.name, "AttributeError", 0)
             /\ UNCHANGED <<transactions, tx_seq>>
        ELSE LET deposit_amount == DepositTerms(api.value).amount
                 deposit_currency == DepositTerms(api.value).currency
                 external_id == DepositTerms(api.value).external_id
                 description == [text |-> "waiting for deposit",
                                 amount |-> deposit_amount,
                                 currency |-> deposit_currency]
             IN  IF TxConstraintsOk(users, u, "deposit", deposit_amount, deposit_currency)
                 THEN /\ Len(transactions) < MaxTx
                      /\ transactions' =
                            Append(transactions,
                                   NewTxRow(AutoIncrement(transactions, tx_seq), u,
                                            "deposit", deposit_amount,
                                            deposit_currency, "pending", external_id,
                                            description, clock))
                      /\ tx_seq' = tx_seq + 1
                      /\ last' = Call("cmd_deposit", u, response.name,
                                      "deposit_instructions",
                                      AutoIncrement(transactions, tx_seq))
                 ELSE /\ last' = Call("cmd_deposit", u, response.name,
                                      "IntegrityError", 0)
                      /\ UNCHANGED <<transactions, tx_seq>>

(* The handler with a gateway that answers at once.                        *)
cmd_deposit(u, response) ==
    /\ cmd_deposit_answered(u, response)
    /\ UNCHANGED <<users, clock, lock, pc, local>>

(* The same handler step by step.  requests.post is a blocking call made   *)
(* inside the coroutine and is given no timeout: from the moment it is     *)
(* made, the handler, and with it the event loop that serves every other   *)
(* user, waits for the gateway.                                            *)
cmd_deposit_post(p, u) ==
    /\ \A q \in Procs : pc[q] = "idle"
    /\ Len(transactions) < MaxTx
    /\ pc' = [pc EXCEPT ![p] = "posting"]
    /\ local' = [local EXCEPT ![p] = [NoLocal EXCEPT !.tid = u]]
    /\ UNCHANGED <<users, transactions, tx_seq, clock, lock, last>>

(* The gateway answers, or the connection fails: requests.post returns or  *)
(* raises.                                                                 *)
gateway_answers(p, response) ==
    /\ pc[p] = "posting"
    /\ pc' = [pc EXCEPT ![p] = "answered"]
    /\ local' = [local EXCEPT ![p].response = response.name]
    /\ UNCHANGED <<users, transactions, tx_seq, clock, lock, last>>

cmd_deposit_finish(p) ==
    /\ pc[p] = "answered"
    /\ \E response \in GatewayResponses :
            /\ response.name = local[p].response
            /\ cmd_deposit_answered(local[p].tid, response)
    /\ pc' = [pc EXCEPT ![p] = "idle"]
    /\ local' = [local EXCEPT ![p] = NoLocal]
    /\ UNCHANGED <<users, clock, lock>>

Tick ==
    /\ clock < MaxClock
    /\ clock' = clock + 1
    /\ last' = Call("tick", 0, "", "ok", 0)
    /\ UNCHANGED <<users, transactions, tx_seq, lock, pc, local>>

(* ------------------- the account registry, two connections ------------- *)
Next ==
    \/ \E p \in Procs, tid \in TelegramIds, prof \in Profiles :
            get_or_create_user_call(p, tid, prof)
    \/ \E p \in Procs : get_or_create_user_insert(p)
    \/ \E p \in Procs : get_or_create_user_commit(p)
    \/ \E p \in Procs : get_or_create_user_locked(p)
    \/ \E tid \in TelegramIds, b \in BOOLEAN : set_user_admin_status(tid, b)
    \/ \E u \in TelegramIds : send_admin_stats(u)
    \/ Tick

Spec == Init /\ [][Next]_vars

(* ------------------- the deposit handler and the gateway --------------- *)
NextDeposit ==
    \/ \E tid \in TelegramIds : get_or_create_user(tid, NoProfile)
    \/ \E b \in NewBalances : update_steam_wallet_balance(42, b)
    \/ \E u \in TelegramIds, r \in GatewayResponses : cmd_deposit(u, r)

SpecDeposit == Init /\ [][NextDeposit]_vars

(* ------------- the deposit handler and a gateway that may be silent ---- *)
NextLive ==
    \/ \E tid \in TelegramIds : get_or_create_user(tid, NoProfile)
    \/ \E p \in Procs, u \in TelegramIds : cmd_deposit_post(p, u)
    \/ \E p \in Procs, r \in GatewayResponses : gateway_answers(p, r)
    \/ \E p \in Procs : cmd_deposit_finish(p)

(* The handler continues as soon as requests.post has returned; nothing    *)
(* obliges the gateway to answer.                                          *)
SpecLive ==
    Init /\ [][NextLive]_vars /\ \A p \in Procs : WF_vars(cmd_deposit_finish(p))

(* ------------- one connection: registry writes beside a ledger --------- *)
NextFrame ==
    \/ \E tid \in TelegramIds, prof \in Profiles : get_or_create_user(tid, prof)
    \/ \E tid \in TelegramIds, b \in BOOLEAN : set_user_admin_status(tid, b)
    \/ \E tid \in TelegramIds, b \in NewBalances : update_steam_wallet_balance(tid, b)
    \/ \E u \in TelegramIds :
            add_transaction(u, "deposit", Num(10), Str("TON"), "pending", Null,
                            NoDescription)
    \/ Tick

SpecFrame == Init /\ [][NextFrame]_vars

(* ------------------------------ the ledger ----------------------------- *)
NextLedger ==
    \/ \E tid \in TelegramIds : get_or_create_user(tid, NoProfile)
    \/ \E b \in NewBalances : update_steam_wallet_balance(42, b)
    \/ \E r \in LedgerRequests :
            add_transaction(r[1], r[2], r[3], Str("TON"), "pending", Null, NoDescription)
    \/ \E id \in 1..(MaxTx + 1), st \in RequestedStatuses :
            update_transaction_status(id, st)

SpecLedger == Init /\ [][NextLedger]_vars

(* ------------------------ the readers beside the writers --------------- *)
Kinds == {"deposit", "withdrawal"}

Amounts == {Num(10), Num(15)}

NextReads ==
    \/ \E tid \in TelegramIds : get_or_create_user(tid, NoProfile)
    \/ \E b \in NewBalances : update_steam_wallet_balance(42, b)
    \/ \E k \in Kinds, a \in Amounts :
            add_transaction(42, k, a, Str("TON"), "pending", Null, NoDescription)
    \/ \E id \in 1..MaxTx, st \in {"completed", "failed"} :
            update_transaction_status(id, st)
    \/ get_total_users_count
    \/ get_total_transactions_count
    \/ get_total_completed_deposit_amount
    \/ get_total_completed_withdrawal_amount
    \/ get_recent_transactions(1)
    \/ \E u \in TelegramIds : send_admin_stats(u)
    \/ \E u \in TelegramIds : cmd_balance(u)
    \/ \E u \in TelegramIds : cmd_transactions(u)

SpecReads == Init /\ [][NextReads]_vars

(* ---------------- the listings, entries of two owners over time -------- *)
Limits == {1, 2}

NextListing ==
    \/ \E u \in TelegramIds :
            add_transaction(u, "deposit", Num(10), Str("TON"), "pending", Null,
                            NoDescription)
    \/ \E u \in TelegramIds, limit \in Limits : get_transactions_by_user(u, limit)
    \/ \E limit \in Limits \cup {-1} : get_all_transactions(limit)
    \/ \E limit \in Limits : get_recent_transactions(limit)
    \/ Tick

SpecListing == Init /\ [][NextListing]_vars

(* ---------------- every writer, each with its store failure ------------ *)
NextRollback ==
    \/ \E p \in Procs, tid \in TelegramIds : get_or_create_user_call(p, tid, NoProfile)
    \/ \E p \in Procs : get_or_create_user_insert(p)
    \/ \E p \in Procs : get_or_create_user_commit(p)
    \/ \E p \in Procs : get_or_create_user_locked(p)
    \/ \E p \in Procs : get_or_create_user_rollback(p)
    \/ set_user_admin_status(42, TRUE)
    \/ set_user_admin_status_rollback(42, TRUE)
    \/ \E b \in NewBalances : update_steam_wallet_balance(42, b)
    \/ \E b \in NewBalances : update_steam_wallet_balance_rollback(42, b)
    \/ add_transaction(42, "deposit", Num(10), Str("TON"), "pending", Null,
                       NoDescription)
    \/ add_transaction_rollback(42, "deposit", Num(10), Str("TON"), "pending", Null,
                                NoDescription)
    \/ \E id \in 1..MaxTx : update_transaction_status(id, "completed")
    \/ \E id \in 1..MaxTx : update_transaction_status_rollback(id, "completed")

SpecRollback == Init /\ [][NextRollback]_vars

(* ------------------- the ledger, with amounts of every kind ------------ *)
NextEntries ==
    \/ get_or_create_user(42, NoProfile)
    \/ \E u \in TelegramIds, a \in InvalidAmounts \cup {Num(10)} :
            add_transaction(u, "deposit", a, Str("TON"), "pending", Null, NoDescription)
    \/ \E id \in 1..MaxTx, st \in {"completed", "failed"} :
            update_transaction_status(id, st)
    \/ Tick

SpecEntries == Init /\ [][NextEntries]_vars

(* ================== properties of the account registry ================= *)

NoDuplicateAccount(tbl) ==
    \A tid \in TelegramIds : Cardinality(UserRows(tbl, tid)) <= 1

(* C4: there is never more than one stored account for an identifier, in   *)
(* the committed table or in any connection's uncommitted view of it, and  *)
(* when a registration returns there is exactly one account for its        *)
(* identifier; two connections registering the same new identifier at the  *)
(* same time included.                                                     *)
C4_OneAccountPerIdentifier ==
    /\ NoDuplicateAccount(users)
    /\ \A p \in Procs : pc[p] = "inserted" => NoDuplicateAccount(local[p].users)
    /\ (last.op = "get_or_create_user" /\ last.result = "ok")
          => Cardinality(UserRows(users, last.who)) = 1

(* Two connections are inside get_or_create_user for the same identifier,  *)
(* which has no committed account yet: one has run its INSERT, the other   *)
(* waits for the write lock.                                               *)
C4_Witness ==
    /\ pc[1] = "inserted"
    /\ pc[2] = "called"
    /\ local[1].tid = local[2].tid
    /\ ~HasUser(users, local[1].tid)
    /\ HasUser(local[1].users, local[1].tid)
    /\ users # <<>>

DisplayFields(r) ==
    [username |-> r.username, first_name |-> r.first_name, last_name |-> r.last_name]

(* C5: a registration that returns for an identifier that already has an   *)
(* account, with display fields other than the stored ones, leaves the     *)
(* stored display fields equal to the ones supplied, and the identifier    *)
(* and creation timestamp as they were.                                    *)
C5_DisplayFieldsRefreshed ==
    [][ \A p \in Procs :
          (pc[p] = "inserted" /\ pc'[p] = "idle" /\ last'.result = "ok"
              /\ HasUser(users, local[p].tid)
              /\ DisplayFields(UserRow(users, local[p].tid)) # local[p].prof)
            => /\ HasUser(users', local[p].tid)
               /\ DisplayFields(UserRow(users', local[p].tid)) = local[p].prof
               /\ UserRow(users', local[p].tid).created_at
                     = UserRow(users, local[p].tid).created_at ]_vars

(* C6: get_or_create_user for an existing account leaves that account's    *)
(* identifier, balance, admin flag and creation timestamp, every other     *)
(* account and every ledger entry as they were; for a new identifier it    *)
(* only appends that account, with balance 0 and the admin flag unset.     *)
C6_RegistrationFrame ==
    [][ last'.op = "get_or_create_user"
          => /\ transactions' = transactions
             /\ tx_seq' = tx_seq
             /\ IF HasUser(users, last'.who)
                THEN /\ Len(users') = Len(users)
                     /\ \A i \in DOMAIN users :
                           IF users[i].telegram_id = last'.who
                           THEN /\ users'[i].telegram_id = users[i].telegram_id
                                /\ users'[i].steam_wallet_balance
                                      = users[i].steam_wallet_balance
                                /\ users'[i].is_admin = users[i].is_admin
                                /\ users'[i].created_at = users[i].created_at
                           ELSE users'[i] = users[i]
                ELSE /\ Len(users') = Len(users) + 1
                     /\ SubSeq(users', 1, Len(users)) = users
                     /\ users'[Len(users')].telegram_id = last'.who
                     /\ users'[Len(users')].steam_wallet_balance = 0
                     /\ users'[Len(users')].is_admin = 0 ]_vars

(* A registration has just returned for an account created earlier that    *)
(* holds a balance and the admin flag, beside a ledger entry.              *)
C6_Witness ==
    /\ last.op = "get_or_create_user"
    /\ HasUser(users, last.who)
    /\ UserRow(users, last.who).created_at < clock
    /\ UserRow(users, last.who).steam_wallet_balance = 25
    /\ UserRow(users, last.who).is_admin = 1
    /\ Len(users) = 2
    /\ transactions # <<>>

(* C12: set_user_admin_status for an identifier with no stored account     *)
(* ends with NotFound and changes nothing; for a stored account it sets    *)
(* that account's admin flag to the given value and changes nothing else.  *)
C12_SetAdminFlag ==
    [][ last'.op = "set_user_admin_status"
          => IF ~HasUser(users, last'.who)
             THEN last'.result = "NotFound" /\ users' = users
             ELSE /\ last'.result = "ok"
                  /\ users' = [i \in DOMAIN users |->
                                  IF users[i].telegram_id = last'.who
                                  THEN [users[i] EXCEPT
                                          !.is_admin = IF last'.what = "1" THEN 1 ELSE 0]
                                  ELSE users[i]] ]_vars

(* C13: a caller of /stats receives the statistics exactly when the        *)
(* caller's stored account has the admin flag set or the caller's          *)
(* identifier is in ADMIN_IDS, an account being stored for it or not.      *)
C13_AdminGate ==
    last.op = "send_admin_stats"
      => (last.result = "stats"
            <=> \/ last.who \in ADMIN_IDS
                \/ (HasUser(users, last.who) /\ UserRow(users, last.who).is_admin = 1))

(* ==================== properties of the deposit handler ================ *)

(* C7: a deposit request whose gateway call fails (no response, or an HTTP *)
(* error status) leaves the ledger and every account as they were and ends *)
(* with the could-not-create-deposit reply.                                *)
C7_GatewayFailureLeavesNoTrace ==
    [][ (last'.op = "cmd_deposit" /\ last'.what \in Names(FailedResponses))
          => /\ transactions' = transactions
             /\ tx_seq' = tx_seq
             /\ users' = users
             /\ last'.result = "deposit_failed" ]_vars

(* A request of an account holding 25 has just failed on an HTTP error     *)
(* status, with an entry already in the ledger.                            *)
C7_Witness ==
    /\ last.op = "cmd_deposit"
    /\ last.what = "http_error"
    /\ last.result = "deposit_failed"
    /\ Balance(users, last.who) = 25
    /\ transactions # <<>>

(* C8: a deposit request whose gateway reply is malformed writes no ledger *)
(* entry and ends with the could-not-create-deposit reply, not with an     *)
(* exception.                                                              *)
C8_MalformedReplyIsGatewayError ==
    [][ (last'.op = "cmd_deposit" /\ last'.what \in Names(MalformedResponses))
          => /\ transactions' = transactions
             /\ last'.result = "deposit_failed" ]_vars

NumericValue(v) == IF v.t = "str" THEN TextAsNumber[v.s] ELSE v.n

(* C9: a deposit request whose gateway call succeeds appends exactly one   *)
(* entry: a pending deposit owned by the requesting user, with the amount, *)
(* currency and correlation identifier of the gateway's reply; it changes  *)
(* no account.                                                             *)
C9_SuccessRecordsConfirmedTerms ==
    [][ \A r \in WellFormedResponses :
          (last'.op = "cmd_deposit" /\ last'.what = r.name)
            => /\ Len(transactions') = Len(transactions) + 1
               /\ SubSeq(transactions', 1, Len(transactions)) = transactions
               /\ LET tx == transactions'[Len(transactions')]
                  IN  /\ tx.type = "deposit"
                      /\ tx.status = "pending"
                      /\ tx.user_telegram_id = last'.who
                      /\ tx.amount = Num(NumericValue(r.body.amount))
                      /\ tx.currency = r.body.currency
                      /\ tx.external_id = Get(r.body.externalId, Null)
                      /\ tx.id = last'.ret
                      /\ \A i \in DOMAIN transactions : transactions[i].id # tx.id
               /\ users' = users
               /\ last'.result = "deposit_instructions" ]_vars

(* A request has just been answered with instructions; the entry it wrote  *)
(* carries the gateway's 15 USDT, not the requested 10 TON, and the        *)
(* requesting account holds 25.                                            *)
C9_Witness ==
    /\ last.op = "cmd_deposit"
    /\ last.what = "confirmed"
    /\ last.result = "deposit_instructions"
    /\ Len(transactions) = 2
    /\ transactions[2].amount = Num(15)
    /\ transactions[2].amount # Num(example_amount)
    /\ transactions[2].currency = Str("USDT")
    /\ transactions[2].currency # Str(example_currency)
    /\ transactions[2].user_telegram_id = last.who
    /\ Balance(users, last.who) = 25

(* C10: the owner of every ledger entry is a stored account.               *)
C10_EveryEntryHasAnAccount ==
    \A i \in DOMAIN transactions : HasUser(users, transactions[i].user_telegram_id)

(* ======================= properties of the ledger ====================== *)

(* The entry a status update addresses, in the state before the update.    *)
Addressed(id) == {i \in DOMAIN transactions : transactions[i].id = id}

LegalTransition(old, new) == old = "pending" /\ new \in {"completed", "failed"}

(* C1: the only status changes that take effect are pending -> completed   *)
(* and pending -> failed; every other request made of                      *)
(* update_transaction_status on an existing entry ends with                *)
(* InvalidTransition and leaves the entry's status as it was.              *)
C1_OnlyLegalTransitions ==
    [][ /\ \A i \in DOMAIN transactions :
              transactions'[i].status # transactions[i].status
                  => LegalTransition(transactions[i].status, transactions'[i].status)
        /\ last'.op = "update_transaction_status"
              => \A i \in Addressed(last'.who) :
                    ~LegalTransition(transactions[i].status, last'.what)
                        => /\ last'.result = "InvalidTransition"
                           /\ transactions'[i].status = transactions[i].status ]_vars

(* C2: completing a pending deposit entry adds exactly the entry's amount  *)
(* to the balance of the owning account, and changes no other balance.     *)
C2_CompletedDepositCredits ==
    [][ (last'.op = "update_transaction_status" /\ last'.what = "completed")
          => \A i \in Addressed(last'.who) :
                (transactions[i].type = "deposit" /\ transactions[i].status = "pending"
                    /\ HasUser(users, transactions[i].user_telegram_id))
                  => \A tid \in TelegramIds :
                        Balance(users', tid) =
                            IF tid = transactions[i].user_telegram_id
                            THEN Balance(users, tid) + transactions[i].amount.n
                            ELSE Balance(users, tid) ]_vars

(* C3: a transition to failed, and the completion of an entry that is not  *)
(* a deposit, leave every account and its balance as they were.            *)
C3_NoBalanceChange ==
    [][ last'.op = "update_transaction_status"
          => \A i \in Addressed(last'.who) :
                (last'.what = "failed"
                    \/ (last'.what = "completed" /\ transactions[i].type # "deposit"))
                  => /\ Accounts(users') = Accounts(users)
                     /\ \A tid \in TelegramIds :
                            Balance(users', tid) = Balance(users, tid) ]_vars

(* A withdrawal of an account holding 25 has just been completed, after    *)
(* another entry was moved to failed.                                      *)
C3_Witness ==
    /\ last.op = "update_transaction_status"
    /\ last.what = "completed"
    /\ \E i \in Addressed(last.who) :
          /\ transactions[i].type = "withdrawal"
          /\ transactions[i].status = "completed"
          /\ Balance(users, transactions[i].user_telegram_id) = 25
    /\ \E j \in DOMAIN transactions : transactions[j].status = "failed"

(* ========================= properties of the readers =================== *)
CompletedOfKind(kind) ==
    {i \in DOMAIN transactions :
        transactions[i].type = kind /\ transactions[i].status = "completed"}

RECURSIVE SumOfAmounts(_)
SumOfAmounts(S) ==
    IF S = {} THEN 0
    ELSE LET i == CHOOSE j \in S : TRUE
         IN  transactions[i].amount.n + SumOfAmounts(S \ {i})

TotalOf(op) ==
    IF op = "get_total_completed_deposit_amount" THEN "deposit" ELSE "withdrawal"

TotalOps ==
    {"get_total_completed_deposit_amount", "get_total_completed_withdrawal_amount"}

(* C14: each of the two totals returns the sum of the amounts of the       *)
(* entries of its kind whose status is completed: 0 when there is none,    *)
(* 25 when they are one entry of 10 and one of 15.                         *)
C14_TotalsAreSums ==
    last.op \in TotalOps
      => LET done == CompletedOfKind(TotalOf(last.op))
         IN  /\ last.ret = SumOfAmounts(done)
             /\ done = {} => last.ret = 0
             /\ (\E i, j \in done :
                    /\ done = {i, j}
                    /\ transactions[i].amount = Num(10)
                    /\ transactions[j].amount = Num(15)) => last.ret = 25

(* The deposit total has just been read as 25 from a ledger holding a      *)
(* completed deposit of 10 and a completed deposit of 15.                  *)
C14_Witness ==
    /\ last.op = "get_total_completed_deposit_amount"
    /\ last.ret = 25
    /\ Len(transactions) = 2
    /\ \A i \in DOMAIN transactions :
            transactions[i].type = "deposit" /\ transactions[i].status = "completed"
    /\ {transactions[i].amount : i \in DOMAIN transactions} = {Num(10), Num(15)}

ReadOps ==
    TotalOps \cup {"get_total_users_count", "get_total_transactions_count",
                   "get_recent_transactions", "send_admin_stats", "cmd_balance",
                   "cmd_transactions"}

(* C17: a read operation leaves the accounts, the ledger entries and the   *)
(* id counter as they were, and what it returns is computed from the store *)
(* as it is when it is called.                                             *)
C17_ReadsChangeNothing ==
    [][ last'.op \in ReadOps
          => /\ users' = users
             /\ transactions' = transactions
             /\ tx_seq' = tx_seq
             /\ last'.op = "get_total_users_count"
                    => last'.ret = Cardinality(DOMAIN users)
             /\ last'.op = "get_total_transactions_count"
                    => last'.ret = Cardinality(DOMAIN transactions)
             /\ last'.op \in TotalOps
                    => last'.ret = SumOfAmounts(CompletedOfKind(TotalOf(last'.op)))
             /\ last'.result = "balance"
                    => \E i \in DOMAIN users :
                          /\ users[i].telegram_id = last'.who
                          /\ users[i].steam_wallet_balance = last'.ret
             /\ last'.result = "stats"
                    => last'.what =
                         ToString(<<Cardinality(DOMAIN users),
                                    Cardinality(DOMAIN transactions),
                                    SumOfAmounts(CompletedOfKind("deposit")),
                                    SumOfAmounts(CompletedOfKind("withdrawal"))>>)
             /\ \A k \in DOMAIN last'.rows :
                    \E i \in DOMAIN transactions : transactions[i].id = last'.rows[k]
       ]_vars

(* The statistics have just been sent to an administrator, from a store    *)
(* holding two accounts, a balance of 25 and a completed entry.            *)
C17_Witness ==
    /\ last.op = "send_admin_stats"
    /\ last.result = "stats"
    /\ Len(users) = 2
    /\ Balance(users, 42) = 25
    /\ Len(last.rows) = 2
    /\ \E i \in DOMAIN transactions : transactions[i].status = "completed"

ListingOps ==
    {"get_transactions_by_user", "get_all_transactions", "get_recent_transactions"}

(* The entries a listing chooses from: all of them, or one owner's.        *)
Listed ==
    {i \in DOMAIN transactions :
        last.op = "get_transactions_by_user"
            => transactions[i].user_telegram_id = last.who}

(* Entry i is more recent than entry j: created later, or in the same      *)
(* second with the larger id.                                              *)
MoreRecent(i, j) ==
    \/ transactions[i].created_at > transactions[j].created_at
    \/ /\ transactions[i].created_at = transactions[j].created_at
       /\ transactions[i].id > transactions[j].id

(* C15: a listing returns at most `limit` entries, all from the entries it *)
(* chooses from (one owner's, for the per-user listing), most recent       *)
(* first with equal creation times ordered by descending id, and none of   *)
(* the entries left out is more recent than one returned.                  *)
C15_ListingsNewestFirst ==
    last.op \in ListingOps
      => LET rows == last.rows
             limit == last.ret
             Row(k) == CHOOSE i \in DOMAIN transactions : transactions[i].id = rows[k]
         IN  /\ limit >= 0 => Len(rows) <= limit
             /\ Len(rows) = IF limit < 0 \/ limit > Cardinality(Listed)
                            THEN Cardinality(Listed) ELSE limit
             /\ \A k \in DOMAIN rows : Row(k) \in Listed
             /\ \A k \in 1..(Len(rows) - 1) : MoreRecent(Row(k), Row(k + 1))
             /\ \A i \in Listed :
                    (\A k \in DOMAIN rows : Row(k) # i)
                        => \A k \in DOMAIN rows : MoreRecent(Row(k), i)

(* C16: every deposit request that has been made eventually finishes,     *)
(* with its entry recorded or its failure reply sent, whether the gateway  *)
(* answers or not.                                                         *)
C16_DepositRequestFinishes ==
    \A p \in Procs : (pc[p] = "posting") ~> (pc[p] = "idle")

(* ====================== properties of the ledger's shape =============== *)
(* C18: no step removes an entry, and no step changes the owner, kind,     *)
(* amount, currency or creation time of an entry that exists.              *)
C18_AppendOnly ==
    [][ /\ Len(transactions') >= Len(transactions)
        /\ \A i \in DOMAIN transactions :
              /\ i \in DOMAIN transactions'
              /\ transactions'[i].id = transactions[i].id
              /\ transactions'[i].user_telegram_id = transactions[i].user_telegram_id
              /\ transactions'[i].type = transactions[i].type
              /\ transactions'[i].amount = transactions[i].amount
              /\ transactions'[i].currency = transactions[i].currency
              /\ transactions'[i].created_at = transactions[i].created_at ]_vars

(* Two entries are stored and the status of one has just been set to       *)
(* failed, of the other to completed at some time.                         *)
C18_Witness ==
    /\ Len(transactions) = 2
    /\ last.op = "update_transaction_status"
    /\ last.what = "failed"
    /\ \E i, j \in DOMAIN transactions :
          /\ transactions[i].id = last.who
          /\ transactions[i].status = "failed"
          /\ transactions[j].status = "completed"

(* C19: a successful add_transaction returns the id of the entry it        *)
(* appended, which is larger than every id assigned before; the first      *)
(* entry of an empty ledger gets id 1.                                     *)
C19_IdsIncrease ==
    [][ (last'.op = "add_transaction" /\ last'.result = "ok")
          => /\ Len(transactions') = Len(transactions) + 1
             /\ transactions'[Len(transactions')].id = last'.ret
             /\ \A i \in DOMAIN transactions : transactions[i].id < last'.ret
             /\ last'.ret > tx_seq
             /\ transactions = <<>> => last'.ret = 1 ]_vars

(* The second entry has just been written with id 2, after the first had   *)
(* its status set.                                                         *)
C19_Witness ==
    /\ last.op = "add_transaction"
    /\ last.result = "ok"
    /\ last.ret = 2
    /\ Len(transactions) = 2
    /\ transactions[1].id = 1
    /\ transactions[2].id = 2
    /\ transactions[1].status = "completed"

StoreErrors == {"OperationalError", "IntegrityError"}

(* C20: a step in which a mutating operation ends with a store error       *)
(* leaves the accounts, the ledger entries and the id counter as they were *)
(* before it.                                                              *)
C20_FailureRollsBack ==
    [][ last'.result \in StoreErrors
          => /\ users' = users
             /\ transactions' = transactions
             /\ tx_seq' = tx_seq ]_vars

(* The completion of entry 1 has just failed: the entry is still pending,  *)
(* beside an account that holds 25.                                        *)
C20_Witness ==
    /\ last.op = "update_transaction_status"
    /\ last.result = "OperationalError"
    /\ last.who = 1
    /\ Len(transactions) >= 1
    /\ transactions[1].status = "pending"
    /\ Balance(users, 42) = 25

(* C11: add_transaction called with an amount that is not a finite,        *)
(* non-zero number ends with ValidationError and leaves the ledger as it   *)
(* was.                                                                    *)
C11_InvalidAmountRejected ==
    [][ \A u \in TelegramIds, a \in InvalidAmounts :
          add_transaction(u, "deposit", a, Str("TON"), "pending", Null, NoDescription)
            => /\ transactions' = transactions
               /\ last'.result = "ValidationError" ]_vars

====
